---- MODULE Spec2Model ----
(***************************************************************************)
(* git2r: the diff binding (src/git2r_diff.c) and git2r_revparse_single    *)
(* (src/git2r_revparse.c).                                                 *)
(*                                                                         *)
(* A git_diff is delivered by libgit2's git_diff_foreach as a forward-only *)
(* stream of file, hunk and line events.  git2r_diff_format_to_r walks the *)
(* stream twice: a counting pass (git2r_diff_count) sizes the containers,  *)
(* a materializing pass (git2r_diff_get_*_cb) fills them through the       *)
(* staging vectors hunk_tmp and line_tmp.  R objects are modelled as cells *)
(* of a heap addressed by reference, because the code stores and copies    *)
(* SEXP pointers, never values; reference 0 is R_NilValue / an unset slot. *)
(*                                                                         *)
(* Spec is a whole call: git2r_diff choosing one of the five operations    *)
(* (git2r_diff_index_to_wd, ..., git2r_diff_tree_to_tree) on the diffs of  *)
(* OpDiffs, or git2r_revparse_single; SpecFormat is                        *)
(* git2r_diff_format_to_r alone, on the longer event streams of Diffs;    *)
(* SpecCopy is the same on the diffs of CopyDiffs, whose line contents     *)
(* are as long as the static buffer of git2r_diff_get_line_cb and longer.  *)
(***************************************************************************)
EXTENDS Integers, Sequences, FiniteSets, TLC

\* ------------------------------------------------------------------ bounds
\* longest event stream of a diff handed to git2r_diff_format_to_r
MaxEvents == 5

\* ------------------------------------------------------- program constants
\* static char short_buffer[200]
ShortBufferSize == 200
\* sizeof(buffer), buffer being a char* (LP64)
SizeofBuffer == 8
\* GIT_ERROR, the generic libgit2 failure code
GIT_ERROR == 0 - 1

\* ------------------------------------------------------------ event inputs
\* git_diff_delta: the two paths the file callback reads
FileDeltas ==
    { [type |-> "file", old_path |-> "a.c", new_path |-> "a.c"],
      [type |-> "file", old_path |-> "b.c", new_path |-> "c.c"] }

\* git_diff_hunk: the five fields the hunk callback reads
DiffHunks ==
    { [type |-> "hunk", old_start |-> 1, old_lines |-> 2,
       new_start |-> 1, new_lines |-> 3, header |-> "@@ -1,2 +1,3 @@"],
      [type |-> "hunk", old_start |-> 7, old_lines |-> 1,
       new_start |-> 8, new_lines |-> 0, header |-> "@@ -7 +8,0 @@"] }

\* git_diff_line: origin is the character code ('+' = 43, '-' = 45),
\* content is the byte string of content_len = Len(content) bytes
DiffLines ==
    { [type |-> "line", origin |-> 43, old_lineno |-> 0 - 1, new_lineno |-> 2,
       num_lines |-> 1, content |-> <<120, 10>>],
      [type |-> "line", origin |-> 45, old_lineno |-> 7, new_lineno |-> 0 - 1,
       num_lines |-> 1, content |-> <<111, 108, 100, 0, 108, 105, 110, 101, 10>>] }

Events == FileDeltas \cup DiffHunks \cup DiffLines

\* The event streams git_diff_foreach can deliver: nothing precedes the
\* first file event.
DiffsUpTo(k) ==
    {<<>>} \cup { d \in UNION { [1..m -> Events] : m \in 1..k } : d[1].type = "file" }

Diffs == DiffsUpTo(MaxEvents)

VARIABLES
    diff,          \* the git_diff: its event stream
    pc,            \* position in the running operation
    pos,           \* next event git_diff_foreach delivers (1-based)
    n,             \* git2r_diff_count_payload
    counted,       \* num_files, max_hunks, max_lines of git2r_diff_format_to_r
    heap,          \* the R objects
    p,             \* git2r_diff_payload
    short_buffer,  \* static char short_buffer[]: the prefix written so far
    buffer,        \* char *buffer of the last line callback
    oob,           \* a vector or buffer was written outside its length
    dest,          \* the git_diff object handed to git2r_diff_format_to_r
    err,           \* int err
    op,            \* the diff operation called
    filename,      \* its filename argument
    step,          \* library calls of the operation that succeeded so far
    acquired,      \* handles obtained, in order
    freed,         \* handles released, in order
    result,        \* SEXP result
    raised,        \* the error git2r_error raised, "none" if none
    returned,      \* the value returned, NotReturned before the return
    calls,         \* calls made to git2r_diff_format_to_r and git_diff_print
    fp,            \* FILE *fp of file mode
    fs,            \* content of the file named by filename
    stdout,        \* bytes written to the standard output
    args,          \* repo, tree1, tree2 and index of git2r_diff
    treeish,       \* kind of the object git_revparse_single resolved
    giterr         \* the message giterr_last() yields

opVars == <<op, filename, step, acquired, freed, result, raised, returned,
            calls, fp, fs, stdout, args, treeish>>

vars == <<diff, pc, pos, n, counted, heap, p, short_buffer, buffer, oob, dest, err,
          giterr, opVars>>

\* -------------------------------------------------------- diff operations
DiffOps == {"index_to_wd", "head_to_index", "tree_to_wd", "tree_to_index",
            "tree_to_tree"}

\* the filename argument: R_NilValue, character(0) or one file name
R_NilValue == [isnull |-> TRUE, strings |-> <<>>]
Filenames == { R_NilValue,
               [isnull |-> FALSE, strings |-> <<>>],
               [isnull |-> FALSE, strings |-> <<"out.diff">>] }

Rf_isNull(x) == x.isnull
Rf_length(x) == Len(x.strings)

\* an R object that is not R_NilValue: a repository or a tree
SomeObject == [isnull |-> FALSE, strings |-> <<"S4">>]

\* the index argument: a logical vector holding TRUE or FALSE, or a value
\* git2r_arg_check_logical rejects
Indexes == { [logical |-> TRUE, value |-> TRUE],
             [logical |-> TRUE, value |-> FALSE],
             [logical |-> FALSE, value |-> FALSE] }

\* LOGICAL(index)[0]
LOGICAL(x) == x.value

\* the arguments of git2r_diff
DiffArgs ==
    [repo : {R_NilValue, SomeObject}, tree1 : {R_NilValue, SomeObject},
     tree2 : {R_NilValue, SomeObject}, index : Indexes]

\* the arguments when git2r_diff is not the function called
NoArgs == [repo |-> SomeObject, tree1 |-> R_NilValue, tree2 |-> R_NilValue,
           index |-> [logical |-> TRUE, value |-> FALSE]]

\* variant: the two argument checks are missing
git2r_diff_unchecked(a) ==
    LET c_index == LOGICAL(a.index)
    IN  IF Rf_isNull(a.tree1) /\ ~c_index THEN "index_to_wd"
        ELSE IF Rf_isNull(a.tree1) /\ c_index THEN "head_to_index"
        ELSE IF ~Rf_isNull(a.tree1) /\ Rf_isNull(a.tree2) /\ ~c_index
        THEN "tree_to_wd"
        ELSE IF ~Rf_isNull(a.tree1) /\ Rf_isNull(a.tree2) /\ c_index
        THEN "tree_to_index"
        ELSE "tree_to_tree"

\* the if / else if chain of git2r_diff on tree1, tree2 and c_index: the
\* operation it calls, or the error it raises
git2r_diff(a) ==
    LET c_index == LOGICAL(a.index)
    IN  IF Rf_isNull(a.tree1) /\ ~c_index
        THEN IF ~Rf_isNull(a.tree2) THEN "git2r_err_diff_arg" ELSE "index_to_wd"
        ELSE IF Rf_isNull(a.tree1) /\ c_index
        THEN IF ~Rf_isNull(a.tree2) THEN "git2r_err_diff_arg" ELSE "head_to_index"
        ELSE IF ~Rf_isNull(a.tree1) /\ Rf_isNull(a.tree2) /\ ~c_index
        THEN IF ~Rf_isNull(a.repo) THEN "git2r_err_diff_arg" ELSE "tree_to_wd"
        ELSE IF ~Rf_isNull(a.tree1) /\ Rf_isNull(a.tree2) /\ c_index
        THEN IF ~Rf_isNull(a.repo) THEN "git2r_err_diff_arg" ELSE "tree_to_index"
        ELSE IF ~Rf_isNull(a.repo) THEN "git2r_err_diff_arg" ELSE "tree_to_tree"

\* the repository argument of git2r_repository_open: repo in the two
\* operations that take it, the repo slot of tree or tree1 in the others
RepoArgument(o, a) ==
    IF o \in {"index_to_wd", "head_to_index"} THEN a.repo ELSE SomeObject

GIT_ENOTFOUND == 0 - 3

\* the error codes a failing library call returns
LibraryErrors == {GIT_ENOTFOUND, GIT_ERROR}

\* git_object_type(treeish): the four kinds with an R class, and any other
ObjectTypes == {"GIT_OBJ_BLOB", "GIT_OBJ_COMMIT", "GIT_OBJ_TAG", "GIT_OBJ_TREE",
                "GIT_OBJ_ANY"}

\* variant: the cases of tag and tree are exchanged
ResultClass_exchanged(type) ==
    CASE type = "GIT_OBJ_BLOB"   -> "git_blob"
      [] type = "GIT_OBJ_COMMIT" -> "git_commit"
      [] type = "GIT_OBJ_TAG"    -> "git_tree"
      [] type = "GIT_OBJ_TREE"   -> "git_tag"
      [] OTHER                   -> "none"

\* the class of the result built in each case of the switch
ResultClass(type) ==
    CASE type = "GIT_OBJ_BLOB"   -> "git_blob"
      [] type = "GIT_OBJ_COMMIT" -> "git_commit"
      [] type = "GIT_OBJ_TAG"    -> "git_tag"
      [] type = "GIT_OBJ_TREE"   -> "git_tree"
      [] OTHER                   -> "none"

\* variant: every failure is reported as not found
RevparseError_not_found(e, last) == "git2r_err_revparse_not_found"

\* the error git2r_revparse_single raises when err is not 0
RevparseError(e, last) ==
    IF GIT_ENOTFOUND = e THEN "git2r_err_revparse_not_found" ELSE last

\* variant: the two patch text branches are exchanged
OutputMode_exchanged(f) ==
    IF Rf_isNull(f) THEN "structured"
    ELSE IF 0 = Rf_length(f) THEN "file"
    ELSE "buffer"

\* the if / else if / else on filename of every diff operation
OutputMode(f) ==
    IF Rf_isNull(f) THEN "structured"
    ELSE IF 0 = Rf_length(f) THEN "buffer"
    ELSE "file"

\* the library calls of each operation between git2r_repository_open and
\* the mode selection, named by the handle each one yields
Steps(o) ==
    CASE o = "index_to_wd"   -> <<"diff">>
      [] o = "head_to_index" -> <<"obj", "head", "diff">>
      [] o = "tree_to_wd"    -> <<"obj", "c_tree", "diff">>
      [] o = "tree_to_index" -> <<"obj", "c_tree", "diff">>
      [] o = "tree_to_tree"  -> <<"obj1", "obj2", "c_tree1", "c_tree2", "diff">>

\* the order of the guarded frees after the cleanup label
ReleaseOrder(o) ==
    CASE o = "index_to_wd"   -> <<"diff", "repository">>
      [] o = "head_to_index" -> <<"head", "obj", "diff", "repository">>
      [] o = "tree_to_wd"    -> <<"diff", "c_tree", "obj", "repository">>
      [] o = "tree_to_index" -> <<"diff", "c_tree", "obj", "repository">>
      [] o = "tree_to_tree"  -> <<"diff", "c_tree1", "c_tree2", "obj1", "obj2",
                                  "repository">>
      [] o = "revparse_single" -> <<"treeish", "repository">>

\* PROTECT(result = NEW_OBJECT(MAKE_CLASS("git_diff"))) and the two SET_SLOTs
\* on old and new; the files slot is not assigned
NewGitDiff(o) ==
    CASE o = "index_to_wd"   -> [kind |-> "git_diff", old |-> "index",
                                 new |-> "workdir", files |-> 0]
      [] o = "head_to_index" -> [kind |-> "git_diff", old |-> "HEAD",
                                 new |-> "index", files |-> 0]
      [] o = "tree_to_wd"    -> [kind |-> "git_diff", old |-> "tree",
                                 new |-> "workdir", files |-> 0]
      [] o = "tree_to_index" -> [kind |-> "git_diff", old |-> "tree",
                                 new |-> "index", files |-> 0]
      [] o = "tree_to_tree"  -> [kind |-> "git_diff", old |-> "tree1",
                                 new |-> "tree2", files |-> 0]

\* no value has been returned yet
NotReturned == 0 - 1

\* what the file named by filename holds before the operation
StaleContent == <<115, 116, 97, 108, 101>>

\* ----------------------------------------------------------- counting pass
git2r_diff_count_file_cb(c) ==
    [c EXCEPT !.num_files = @ + 1, !.num_hunks = 0, !.num_lines = 0]

\* variant: the line counter survives a hunk boundary
git2r_diff_count_hunk_cb_keeps_lines(c) ==
    LET h == c.num_hunks + 1
    IN  [c EXCEPT !.num_hunks = h,
                  !.max_hunks = IF h > @ THEN h ELSE @]

git2r_diff_count_hunk_cb(c) ==
    LET h == c.num_hunks + 1
    IN  [c EXCEPT !.num_hunks = h,
                  !.max_hunks = IF h > @ THEN h ELSE @,
                  !.num_lines = 0]

\* variant: a line is counted only inside a hunk
git2r_diff_count_line_cb_in_hunk_only(c) ==
    IF c.num_hunks = 0 THEN c
    ELSE LET l == c.num_lines + 1
         IN  [c EXCEPT !.num_lines = l,
                       !.max_lines = IF l > @ THEN l ELSE @]

\* variant: the maximum is compared before the increment
git2r_diff_count_line_cb_lagging(c) ==
    [c EXCEPT !.num_lines = @ + 1,
              !.max_lines = IF c.num_lines > @ THEN c.num_lines ELSE @]

git2r_diff_count_line_cb(c) ==
    LET l == c.num_lines + 1
    IN  [c EXCEPT !.num_lines = l,
                  !.max_lines = IF l > @ THEN l ELSE @]

\* git2r_diff_count_payload n = { 0, 0, 0 }
CountPayloadInit ==
    [num_files |-> 0, max_hunks |-> 0, max_lines |-> 0,
     num_hunks |-> 0, num_lines |-> 0]

\* ------------------------------------------------------------------ R heap
\* Rf_allocVector(VECSXP, len): a list of len R_NilValue elements
Rf_allocVector(len) == [kind |-> "VECSXP", elts |-> [i \in 1..len |-> 0]]

\* XLENGTH of a list cell
Length(h, v) == Len(h[v].elts)

\* VECTOR_ELT(v, i), i counted from 0; 0 when v or i is out of range
VECTOR_ELT(h, v, i) ==
    IF v # 0 /\ i >= 0 /\ i < Length(h, v) THEN h[v].elts[i + 1] ELSE 0

\* SET_VECTOR_ELT(v, i, x), i counted from 0.  A store outside the vector
\* is undefined in C: the state is only marked, nothing is stored.
SET_VECTOR_ELT(st, v, i, x) ==
    IF v # 0 /\ i >= 0 /\ i < Length(st.heap, v)
    THEN [st EXCEPT !.heap[v].elts[i + 1] = x]
    ELSE [st EXCEPT !.oob = TRUE]

\* PROTECT(x = NEW_OBJECT(...)) / Rf_allocVector: the new cell's reference
NewRef(st) == Len(st.heap) + 1

Allocate(st, obj) == [st EXCEPT !.heap = Append(@, obj)]

\* ------------------------------------------------------ materializing pass
\* variant: the staged lines are copied back to front
SaveHunkLines_reversed(st) ==
    IF st.p.hunk_ptr # 0
    THEN LET len   == st.p.line_ptr
             lines == NewRef(st)
             hunk  == VECTOR_ELT(st.heap, st.p.hunk_tmp, st.p.hunk_ptr - 1)
             vec   == [kind |-> "VECSXP",
                       elts |-> [i \in 1..len |->
                                   VECTOR_ELT(st.heap, st.p.line_tmp, len - i)]]
             s1    == Allocate(st, vec)
         IN  IF hunk = 0 \/ len > Length(st.heap, st.p.line_tmp)
             THEN [s1 EXCEPT !.oob = TRUE]
             ELSE [s1 EXCEPT !.heap[hunk].lines = lines]
    ELSE st

\* variant: the lines are always saved into the first staged hunk
SaveHunkLines_first(st) ==
    IF st.p.hunk_ptr # 0
    THEN LET len   == st.p.line_ptr
             lines == NewRef(st)
             hunk  == VECTOR_ELT(st.heap, st.p.hunk_tmp, 0)
             vec   == [kind |-> "VECSXP",
                       elts |-> [i \in 1..len |->
                                   VECTOR_ELT(st.heap, st.p.line_tmp, i - 1)]]
             s1    == Allocate(st, vec)
         IN  IF hunk = 0 \/ len > Length(st.heap, st.p.line_tmp)
             THEN [s1 EXCEPT !.oob = TRUE]
             ELSE [s1 EXCEPT !.heap[hunk].lines = lines]
    ELSE st

\* git2r_diff_get_hunk_cb, "Save previous hunk's lines in hunk_tmp, from the
\* line_tmp temporary storage": lines = Rf_allocVector(VECSXP, p->line_ptr),
\* SET_SLOT(VECTOR_ELT(p->hunk_tmp, p->hunk_ptr-1), "lines", lines), then the
\* first line_ptr elements of line_tmp are copied.
SaveHunkLines(st) ==
    IF st.p.hunk_ptr # 0
    THEN LET len   == st.p.line_ptr
             lines == NewRef(st)
             hunk  == VECTOR_ELT(st.heap, st.p.hunk_tmp, st.p.hunk_ptr - 1)
             vec   == [kind |-> "VECSXP",
                       elts |-> [i \in 1..len |->
                                   VECTOR_ELT(st.heap, st.p.line_tmp, i - 1)]]
             s1    == Allocate(st, vec)
         IN  IF hunk = 0 \/ len > Length(st.heap, st.p.line_tmp)
             THEN [s1 EXCEPT !.oob = TRUE]
             ELSE [s1 EXCEPT !.heap[hunk].lines = lines]
    ELSE st

\* variant: the line staging index survives a hunk boundary
NewHunk_keeps_line_ptr(st, hunk) ==
    LET hunk_obj == NewRef(st)
        s1 == Allocate(st, [kind |-> "git_diff_hunk",
                            old_start |-> hunk.old_start,
                            old_lines |-> hunk.old_lines,
                            new_start |-> hunk.new_start,
                            new_lines |-> hunk.new_lines,
                            header    |-> hunk.header,
                            lines     |-> 0])
        s2 == SET_VECTOR_ELT(s1, s1.p.hunk_tmp, s1.p.hunk_ptr, hunk_obj)
    IN  [s2 EXCEPT !.p.hunk_ptr = @ + 1]

\* git2r_diff_get_hunk_cb, "OK, ready for the next hunk, if any"
NewHunk(st, hunk) ==
    LET hunk_obj == NewRef(st)
        s1 == Allocate(st, [kind |-> "git_diff_hunk",
                            old_start |-> hunk.old_start,
                            old_lines |-> hunk.old_lines,
                            new_start |-> hunk.new_start,
                            new_lines |-> hunk.new_lines,
                            header    |-> hunk.header,
                            lines     |-> 0])
        s2 == SET_VECTOR_ELT(s1, s1.p.hunk_tmp, s1.p.hunk_ptr, hunk_obj)
    IN  [s2 EXCEPT !.p.hunk_ptr = @ + 1, !.p.line_ptr = 0]

\* the null hunk / null delta of a flushing call
NoEvent == [type |-> "null"]

git2r_diff_get_hunk_cb(st, hunk) ==
    LET s1 == SaveHunkLines(st)
    IN  IF hunk.type # "null" THEN NewHunk(s1, hunk) ELSE s1

\* variant: a file without staged hunks gets no hunk list
SaveFileHunks_skips_empty(st) ==
    IF st.p.file_ptr # 0 /\ st.p.hunk_ptr # 0
    THEN LET len   == st.p.hunk_ptr
             hunks == NewRef(st)
             file  == VECTOR_ELT(st.heap, st.p.result, st.p.file_ptr - 1)
             vec   == [kind |-> "VECSXP",
                       elts |-> [i \in 1..len |->
                                   VECTOR_ELT(st.heap, st.p.hunk_tmp, i - 1)]]
             s1    == Allocate(st, vec)
         IN  IF file = 0 \/ len > Length(st.heap, st.p.hunk_tmp)
             THEN [s1 EXCEPT !.oob = TRUE]
             ELSE [s1 EXCEPT !.heap[file].hunks = hunks]
    ELSE st

\* variant: the committed hunk list has the capacity of hunk_tmp
SaveFileHunks_padded(st) ==
    IF st.p.file_ptr # 0
    THEN LET len   == st.p.hunk_ptr
             hunks == NewRef(st)
             file  == VECTOR_ELT(st.heap, st.p.result, st.p.file_ptr - 1)
             vec   == [kind |-> "VECSXP",
                       elts |-> [i \in 1..Length(st.heap, st.p.hunk_tmp) |->
                                   IF i <= len
                                   THEN VECTOR_ELT(st.heap, st.p.hunk_tmp, i - 1)
                                   ELSE 0]]
             s1    == Allocate(st, vec)
         IN  IF file = 0 \/ len > Length(st.heap, st.p.hunk_tmp)
             THEN [s1 EXCEPT !.oob = TRUE]
             ELSE [s1 EXCEPT !.heap[file].hunks = hunks]
    ELSE st

\* variant: the staging vector itself is stored in the hunks slot, not a copy
SaveFileHunks_shares_staging(st) ==
    IF st.p.file_ptr # 0
    THEN LET file == VECTOR_ELT(st.heap, st.p.result, st.p.file_ptr - 1)
         IN  IF file = 0
             THEN [st EXCEPT !.oob = TRUE]
             ELSE [st EXCEPT !.heap[file].hunks = st.p.hunk_tmp]
    ELSE st

\* git2r_diff_get_file_cb, "Save the previous file's hunks from the hunk_tmp
\* temporary storage"
SaveFileHunks(st) ==
    IF st.p.file_ptr # 0
    THEN LET len   == st.p.hunk_ptr
             hunks == NewRef(st)
             file  == VECTOR_ELT(st.heap, st.p.result, st.p.file_ptr - 1)
             vec   == [kind |-> "VECSXP",
                       elts |-> [i \in 1..len |->
                                   VECTOR_ELT(st.heap, st.p.hunk_tmp, i - 1)]]
             s1    == Allocate(st, vec)
         IN  IF file = 0 \/ len > Length(st.heap, st.p.hunk_tmp)
             THEN [s1 EXCEPT !.oob = TRUE]
             ELSE [s1 EXCEPT !.heap[file].hunks = hunks]
    ELSE st

\* variant: the two paths are stored in each other's slot
NewFile_swapped(st, delta) ==
    LET file_obj == NewRef(st)
        s1 == Allocate(st, [kind |-> "git_diff_file",
                            old_file |-> delta.new_path,
                            new_file |-> delta.old_path,
                            hunks    |-> 0])
        s2 == SET_VECTOR_ELT(s1, s1.p.result, s1.p.file_ptr, file_obj)
    IN  [s2 EXCEPT !.p.file_ptr = @ + 1, !.p.hunk_ptr = 0, !.p.line_ptr = 0]

\* git2r_diff_get_file_cb, "OK, ready for next file, if any"
NewFile(st, delta) ==
    LET file_obj == NewRef(st)
        s1 == Allocate(st, [kind |-> "git_diff_file",
                            old_file |-> delta.old_path,
                            new_file |-> delta.new_path,
                            hunks    |-> 0])
        s2 == SET_VECTOR_ELT(s1, s1.p.result, s1.p.file_ptr, file_obj)
    IN  [s2 EXCEPT !.p.file_ptr = @ + 1, !.p.hunk_ptr = 0, !.p.line_ptr = 0]

\* variant: the file callback does not flush the last hunk's lines first
git2r_diff_get_file_cb_no_hunk_flush(st, delta) ==
    LET s2 == SaveFileHunks(st)
    IN  IF delta.type # "null" THEN NewFile(s2, delta) ELSE s2

\* variant: the last hunk's lines are flushed after the file's hunk list is
\* saved and the staging indices are reset
git2r_diff_get_file_cb_late_flush(st, delta) ==
    LET s1 == SaveFileHunks(st)
        s2 == IF delta.type # "null" THEN NewFile(s1, delta) ELSE s1
    IN  git2r_diff_get_hunk_cb(s2, NoEvent)

git2r_diff_get_file_cb(st, delta) ==
    LET s1 == git2r_diff_get_hunk_cb(st, NoEvent)
        s2 == SaveFileHunks(s1)
    IN  IF delta.type # "null" THEN NewFile(s2, delta) ELSE s2

\* the C string held by a byte array: the bytes before the first 0
CString(bytes) ==
    LET zeros == { i \in DOMAIN bytes : bytes[i] = 0 }
    IN  IF zeros = {} THEN bytes
        ELSE SubSeq(bytes, 1, (CHOOSE i \in zeros : \A j \in zeros : i <= j) - 1)

\* git2r_diff_get_line_cb, the content copy: buffer is short_buffer unless
\* content_len > sizeof(buffer); memcpy, then buffer[content_len] = 0.
\* Result: the static buffer afterwards and the string Rf_mkString reads.
\* variant: the content length is compared with the capacity of short_buffer
UsesHeapBuffer_capacity(line) == Len(line.content) > ShortBufferSize

UsesHeapBuffer(line) == Len(line.content) > SizeofBuffer

\* no line callback has run yet
NoBuffer == [kind |-> "none", capacity |-> 0, written |-> 0, freed |-> FALSE]

\* the buffer the content of length len is copied to: short_buffer, or
\* malloc(content_len + 1); len + 1 bytes are written (memcpy and the
\* terminating 0); if (buffer != short_buffer) free(buffer)
BufferFor(line) ==
    LET len  == Len(line.content)
        kind == IF UsesHeapBuffer(line) THEN "heap" ELSE "static"
    IN  [kind     |-> kind,
         capacity |-> IF kind = "heap" THEN len + 1 ELSE ShortBufferSize,
         written  |-> len + 1,
         freed    |-> kind # "static"]

\* variant: the terminating 0 is not written after the copied bytes
CopyContent_unterminated(sb, line) ==
    LET len    == Len(line.content)
        copied == line.content
        buf    == BufferFor(line)
    IN  IF buf.kind = "heap"
        THEN [short_buffer |-> sb, content |-> CString(copied),
              buffer |-> buf, overrun |-> buf.written > buf.capacity]
        ELSE LET after == copied \o SubSeq(sb, len + 1, Len(sb))
             IN  [short_buffer |-> after, content |-> CString(after),
                  buffer |-> buf, overrun |-> buf.written > buf.capacity]

CopyContent(sb, line) ==
    LET len    == Len(line.content)
        copied == line.content \o <<0>>
        buf    == BufferFor(line)
    IN  IF buf.kind = "heap"
        THEN [short_buffer |-> sb, content |-> CString(copied),
              buffer |-> buf, overrun |-> buf.written > buf.capacity]
        ELSE LET after == copied \o SubSeq(sb, len + 2, Len(sb))
             IN  [short_buffer |-> after, content |-> CString(after),
                  buffer |-> buf, overrun |-> buf.written > buf.capacity]

\* variant: line_ptr is not advanced
git2r_diff_get_line_cb_no_advance(st, line) ==
    LET line_obj == NewRef(st)
        cp == CopyContent(st.short_buffer, line)
        s1 == Allocate(st, [kind |-> "git_diff_line",
                            origin     |-> line.origin,
                            old_lineno |-> line.old_lineno,
                            new_lineno |-> line.new_lineno,
                            num_lines  |-> line.num_lines,
                            content    |-> cp.content])
        s2 == SET_VECTOR_ELT(s1, s1.p.line_tmp, s1.p.line_ptr, line_obj)
    IN  [s2 EXCEPT !.short_buffer = cp.short_buffer,
                   !.buffer = cp.buffer,
                   !.oob = @ \/ cp.overrun]

git2r_diff_get_line_cb(st, line) ==
    LET line_obj == NewRef(st)
        cp == CopyContent(st.short_buffer, line)
        s1 == Allocate(st, [kind |-> "git_diff_line",
                            origin     |-> line.origin,
                            old_lineno |-> line.old_lineno,
                            new_lineno |-> line.new_lineno,
                            num_lines  |-> line.num_lines,
                            content    |-> cp.content])
        s2 == SET_VECTOR_ELT(s1, s1.p.line_tmp, s1.p.line_ptr, line_obj)
    IN  [s2 EXCEPT !.p.line_ptr = @ + 1,
                   !.short_buffer = cp.short_buffer,
                   !.buffer = cp.buffer,
                   !.oob = @ \/ cp.overrun]

\* git2r_diff_payload payload = { R_NilValue, R_NilValue, R_NilValue, 0, 0, 0 }
PayloadInit ==
    [result |-> 0, hunk_tmp |-> 0, line_tmp |-> 0,
     file_ptr |-> 0, hunk_ptr |-> 0, line_ptr |-> 0]

\* the callbacks' view of the mutable state
State == [heap |-> heap, p |-> p, oob |-> oob, short_buffer |-> short_buffer,
          buffer |-> buffer]

Store(st) ==
    /\ heap' = st.heap
    /\ p' = st.p
    /\ oob' = st.oob
    /\ short_buffer' = st.short_buffer
    /\ buffer' = st.buffer

\* --------------------------------------------- git2r_diff_format_to_r steps
\* variant: the line callback of the counting pass reports a failure
CallbackReturn_line_fails(cb, event) ==
    IF cb = "git2r_diff_count_line_cb" THEN GIT_ERROR ELSE 0

\* the value a callback returns for an event: each of the six ends in
\* return 0, and git2r_diff_get_file_cb does not look at what its call of
\* git2r_diff_get_hunk_cb returned
CallbackReturn(cb, event) == 0

\* git_diff_foreach (libgit2) stops the traversal and returns the value
\* when a callback returns a value other than 0
git_diff_foreach_stops(ret) == ret # 0

\* what git2r_diff_count returns when git_diff_foreach returned e
git2r_diff_count_result(e) == IF e # 0 THEN 0 - 1 ELSE 0

\* after a callback of the counting pass that returned ret
AfterCount(ret) ==
    /\ pos' = pos + 1
    /\ pc' = IF git_diff_foreach_stops(ret) THEN "fmt_return" ELSE "count"
    /\ err' = IF git_diff_foreach_stops(ret) THEN git2r_diff_count_result(ret)
              ELSE err
    /\ UNCHANGED <<opVars, giterr, diff, counted, heap, p, short_buffer, buffer,
                   oob, dest>>

\* git_diff_foreach (counting pass) delivers a file event
CountFileCb ==
    /\ pc = "count"
    /\ pos <= Len(diff)
    /\ diff[pos].type = "file"
    /\ n' = git2r_diff_count_file_cb(n)
    /\ AfterCount(CallbackReturn("git2r_diff_count_file_cb", diff[pos]))

CountHunkCb ==
    /\ pc = "count"
    /\ pos <= Len(diff)
    /\ diff[pos].type = "hunk"
    /\ n' = git2r_diff_count_hunk_cb(n)
    /\ AfterCount(CallbackReturn("git2r_diff_count_hunk_cb", diff[pos]))

CountLineCb ==
    /\ pc = "count"
    /\ pos <= Len(diff)
    /\ diff[pos].type = "line"
    /\ n' = git2r_diff_count_line_cb(n)
    /\ AfterCount(CallbackReturn("git2r_diff_count_line_cb", diff[pos]))

\* variant: the files list is allocated one element too long
AllocateContainers_one_more(st, d, c) ==
    LET r1 == NewRef(st)
        s1 == Allocate(st, Rf_allocVector(c.num_files + 1))
        s2 == [s1 EXCEPT !.heap[d].files = r1, !.p.result = r1]
        r2 == NewRef(s2)
        s3 == [Allocate(s2, Rf_allocVector(c.max_hunks)) EXCEPT !.p.hunk_tmp = r2]
        r3 == NewRef(s3)
    IN  [Allocate(s3, Rf_allocVector(c.max_lines)) EXCEPT !.p.line_tmp = r3]

\* git2r_diff_format_to_r after a successful count: the three containers
\* are allocated and the files slot of dest is set to payload.result
AllocateContainers(st, d, c) ==
    LET r1 == NewRef(st)
        s1 == Allocate(st, Rf_allocVector(c.num_files))
        s2 == [s1 EXCEPT !.heap[d].files = r1, !.p.result = r1]
        r2 == NewRef(s2)
        s3 == [Allocate(s2, Rf_allocVector(c.max_hunks)) EXCEPT !.p.hunk_tmp = r2]
        r3 == NewRef(s3)
    IN  [Allocate(s3, Rf_allocVector(c.max_lines)) EXCEPT !.p.line_tmp = r3]

\* git2r_diff_count, after git_diff_foreach returned 0
git2r_diff_count(c) ==
    [set |-> TRUE, num_files |-> c.num_files,
     max_hunks |-> c.max_hunks, max_lines |-> c.max_lines]

\* variant: the failure of the counting pass is ignored, the containers are
\* allocated from the unset outputs and the second pass starts
CountFail_proceeds ==
    /\ pc = "count"
    /\ Store(AllocateContainers(State, dest, counted))
    /\ err' = 0
    /\ pc' = "get"
    /\ pos' = 1
    /\ UNCHANGED <<opVars, giterr, diff, n, counted, dest>>

\* git_diff_foreach fails in the counting pass: git2r_diff_count returns -1
\* and git2r_diff_format_to_r returns it
CountFail ==
    /\ pc = "count"
    /\ \E e \in LibraryErrors : err' = git2r_diff_count_result(e)
    /\ giterr' = "library"
    /\ pc' = "fmt_return"
    /\ UNCHANGED <<opVars, diff, pos, n, counted, heap, p, short_buffer, buffer, oob, dest>>

\* the counting traversal ends: git2r_diff_count stores its outputs and
\* returns 0, git2r_diff_format_to_r allocates and starts the second pass
CountDone ==
    /\ pc = "count"
    /\ pos = Len(diff) + 1
    /\ counted' = git2r_diff_count(n)
    /\ Store(AllocateContainers(State, dest, counted'))
    /\ err' = 0
    /\ pc' = "get"
    /\ pos' = 1
    /\ UNCHANGED <<opVars, giterr, diff, n, dest>>

\* after a callback of the materializing pass that returned ret:
\* git_diff_foreach goes on, or stops and returns ret
AfterCallback(st, ret) ==
    /\ Store(st)
    /\ pc' = IF st.oob THEN "undefined"
             ELSE IF git_diff_foreach_stops(ret) THEN "fmt_return" ELSE "get"
    /\ err' = IF git_diff_foreach_stops(ret) THEN ret ELSE err
    /\ pos' = pos + 1
    /\ UNCHANGED <<opVars, giterr, diff, n, counted, dest>>

GetFileCb ==
    /\ pc = "get"
    /\ pos <= Len(diff)
    /\ diff[pos].type = "file"
    /\ AfterCallback(git2r_diff_get_file_cb(State, diff[pos]),
                     CallbackReturn("git2r_diff_get_file_cb", diff[pos]))

GetHunkCb ==
    /\ pc = "get"
    /\ pos <= Len(diff)
    /\ diff[pos].type = "hunk"
    /\ AfterCallback(git2r_diff_get_hunk_cb(State, diff[pos]),
                     CallbackReturn("git2r_diff_get_hunk_cb", diff[pos]))

GetLineCb ==
    /\ pc = "get"
    /\ pos <= Len(diff)
    /\ diff[pos].type = "line"
    /\ AfterCallback(git2r_diff_get_line_cb(State, diff[pos]),
                     CallbackReturn("git2r_diff_get_line_cb", diff[pos]))

\* variant: the terminating call is made although the traversal failed
GetFail_flushes ==
    /\ pc = "get"
    /\ Store(git2r_diff_get_file_cb(State, NoEvent))
    /\ err' \in LibraryErrors
    /\ giterr' = "library"
    /\ pc' = "fmt_return"
    /\ UNCHANGED <<opVars, diff, pos, n, counted, dest>>

\* git_diff_foreach fails in the materializing pass: no flush, err returned
GetFail ==
    /\ pc = "get"
    /\ err' \in LibraryErrors
    /\ giterr' = "library"
    /\ pc' = "fmt_return"
    /\ UNCHANGED <<opVars, diff, pos, n, counted, heap, p, short_buffer, buffer, oob, dest>>

\* git_diff_foreach returns GIT_OK
GetDone ==
    /\ pc = "get"
    /\ pos = Len(diff) + 1
    /\ err' = 0
    /\ pc' = "flush"
    /\ UNCHANGED <<opVars, giterr, diff, pos, n, counted, heap, p, short_buffer, buffer, oob, dest>>

\* "Need to call them once more, to put in the last lines/hunks/files":
\* err = git2r_diff_get_file_cb(NULL, 100, &payload), which returns 0
Terminate ==
    /\ pc = "flush"
    /\ LET st == git2r_diff_get_file_cb(State, NoEvent)
       IN  /\ Store(st)
           /\ pc' = IF st.oob THEN "undefined" ELSE "fmt_return"
    /\ err' = CallbackReturn("git2r_diff_get_file_cb", NoEvent)
    /\ UNCHANGED <<opVars, giterr, diff, pos, n, counted, dest>>

\* the locals of git2r_diff_format_to_r before git2r_diff_count has run
NotCounted == [set |-> FALSE, num_files |-> 0, max_hunks |-> 0, max_lines |-> 0]

\* git2r_diff_format_to_r called by git2r_diff_index_to_wd on the git_diff
\* object it has just created
FormatEntry ==
    /\ pc = "count"
    /\ pos = 1
    /\ n = CountPayloadInit
    /\ counted = NotCounted
    /\ heap = << NewGitDiff("index_to_wd") >>
    /\ dest = 1
    /\ p = PayloadInit
    /\ short_buffer = <<>>
    /\ buffer = NoBuffer
    /\ oob = FALSE
    /\ err = 0
    /\ op = "index_to_wd"
    /\ filename = R_NilValue
    /\ step = 1
    /\ acquired = <<"repository", "diff">>
    /\ freed = <<>>
    /\ result = 1
    /\ raised = "none"
    /\ returned = NotReturned
    /\ calls = <<"git2r_diff_format_to_r">>
    /\ fp = "unopened"
    /\ fs = StaleContent
    /\ stdout = <<>>
    /\ args = [repo |-> SomeObject, tree1 |-> R_NilValue, tree2 |-> R_NilValue,
               index |-> [logical |-> TRUE, value |-> FALSE]]
    /\ treeish = "null"
    /\ giterr = "none"

InitFormat == diff \in Diffs /\ FormatEntry

NextFormat ==
    \/ CountFileCb
    \/ CountHunkCb
    \/ CountLineCb
    \/ CountFail
    \/ CountDone
    \/ GetFileCb
    \/ GetHunkCb
    \/ GetLineCb
    \/ GetFail
    \/ GetDone
    \/ Terminate

SpecFormat == InitFormat /\ [][NextFormat]_vars

\* ------------------------------------------- lines of every content length
\* longest content of the first line, of the second line
MaxContentLen == 201
MaxSecondLen == 3

\* k content bytes, none of them 0 but the one at position z (if any)
ContentOf(k, z) == [i \in 1..k |-> IF i = z THEN 0 ELSE 97 + (i % 26)]

LineOf(k, z) ==
    [type |-> "line", origin |-> 43, old_lineno |-> 0 - 1, new_lineno |-> 2,
     num_lines |-> 1, content |-> ContentOf(k, z)]

\* one file with one hunk of two lines: the first of any length, with or
\* without a 0 byte at its third position, the second short
CopyDiffs ==
    { << [type |-> "file", old_path |-> "a.c", new_path |-> "a.c"],
         [type |-> "hunk", old_start |-> 1, old_lines |-> 2,
          new_start |-> 1, new_lines |-> 3, header |-> "@@ -1,2 +1,3 @@"],
         LineOf(k1, z1), LineOf(k2, 0) >> :
        k1 \in 0..MaxContentLen, z1 \in {0, 3}, k2 \in 0..MaxSecondLen }

\* git2r_diff_format_to_r on these diffs
InitCopy == diff \in CopyDiffs /\ FormatEntry

SpecCopy == InitCopy /\ [][NextFormat]_vars

\* ---------------------------------------------------- patch text rendering
RECURSIVE Concat(_)
Concat(ss) == IF ss = <<>> THEN <<>> ELSE Head(ss) \o Concat(Tail(ss))

\* the bytes of the strings that occur in events
Bytes(str) ==
    CASE str = "a.c" -> <<97, 46, 99>>
      [] str = "b.c" -> <<98, 46, 99>>
      [] str = "c.c" -> <<99, 46, 99>>
      [] str = "@@ -1,2 +1,3 @@" ->
            <<64, 64, 32, 45, 49, 44, 50, 32, 43, 49, 44, 51, 32, 64, 64>>
      [] str = "@@ -7 +8,0 @@" ->
            <<64, 64, 32, 45, 55, 32, 43, 56, 44, 48, 32, 64, 64>>

\* git_diff_print with GIT_DIFF_FORMAT_PATCH (libgit2): per file a header
\* naming both paths, per hunk its header, per line its origin character
\* followed by its content bytes
EventText(e) ==
    CASE e.type = "file" -> Bytes(e.old_path) \o <<32>> \o Bytes(e.new_path) \o <<10>>
      [] e.type = "hunk" -> Bytes(e.header) \o <<10>>
      [] e.type = "line" -> <<e.origin>> \o e.content

PatchText(d) == Concat([i \in DOMAIN d |-> EventText(d[i])])

\* git_diff_print_callback__to_file_handle (libgit2) writes to the payload
\* handle, and to the standard output when the payload is NULL
SinkOf(handle) == IF handle = "open" THEN "file" ELSE "stdout"

\* Rf_mkString(ptr): a character vector holding the C string at ptr; a
\* git_buf is always terminated by a 0 byte
Rf_mkString(bytes) == [kind |-> "STRSXP", value |-> CString(bytes \o <<0>>)]

\* ------------------------------------------------- steps of a diff operation
\* bound on the event stream of a diff produced inside a whole operation
MaxOpEvents == 3

OpDiffs == DiffsUpTo(MaxOpEvents)

Range(seq) == { seq[i] : i \in DOMAIN seq }

\* git2r_diff: git2r_arg_check_logical(index), then the chain on tree1,
\* tree2 and index, which raises git2r_err_diff_arg or calls one operation
Dispatch ==
    /\ pc = "dispatch"
    /\ IF ~args.index.logical
       THEN /\ raised' = "git2r_err_logical_arg"
            /\ pc' = "done"
            /\ op' = op
       ELSE IF git2r_diff(args) \notin DiffOps
       THEN /\ raised' = git2r_diff(args)
            /\ pc' = "done"
            /\ op' = op
       ELSE /\ op' = git2r_diff(args)
            /\ pc' = "check_args"
            /\ raised' = raised
    /\ UNCHANGED <<diff, pos, n, counted, heap, p, short_buffer, buffer, oob, dest, err,
                   filename, step, acquired, freed, result, returned,
                   calls, fp, fs, stdout, args, treeish, giterr>>

\* git2r_arg_check_tree / git2r_arg_check_filename / git2r_arg_check_string:
\* an argument is rejected before anything is opened
ArgumentError ==
    /\ pc = "check_args"
    /\ raised' = "invalid_argument"
    /\ pc' = "done"
    /\ UNCHANGED <<diff, pos, n, counted, heap, p, short_buffer, buffer, oob, dest, err,
                   op, filename, step, acquired, freed, result, returned,
                   calls, fp, fs, stdout, args, treeish, giterr>>

\* repository = git2r_repository_open(repo)
OpenRepository ==
    /\ pc = "check_args"
    /\ \E opened \in BOOLEAN :
          IF opened
          THEN /\ ~Rf_isNull(RepoArgument(op, args))
               /\ acquired' = Append(acquired, "repository")
               /\ pc' = IF op = "revparse_single" THEN "revparse" ELSE "steps"
               /\ raised' = raised
          ELSE /\ raised' = "invalid_repository"
               /\ pc' = "done"
               /\ acquired' = acquired
    /\ UNCHANGED <<diff, pos, n, counted, heap, p, short_buffer, buffer, oob, dest, err,
                   op, filename, step, freed, result, returned,
                   calls, fp, fs, stdout, args, treeish, giterr>>

\* git_revparse_single / git_tree_lookup succeeds and yields its handle
AcquireHandle ==
    /\ pc = "steps"
    /\ op \in DiffOps
    /\ Steps(op)[step + 1] # "diff"
    /\ acquired' = Append(acquired, Steps(op)[step + 1])
    /\ step' = step + 1
    /\ err' = 0
    /\ UNCHANGED <<diff, pc, pos, n, counted, heap, p, short_buffer, buffer, oob, dest,
                   op, filename, freed, result, raised, returned,
                   calls, fp, fs, stdout, args, treeish, giterr>>

\* git_diff_index_to_workdir / git_diff_tree_to_index / git_diff_tree_to_workdir
\* / git_diff_tree_to_tree succeeds
CreateDiff ==
    /\ pc = "steps"
    /\ op \in DiffOps
    /\ Steps(op)[step + 1] = "diff"
    /\ diff' \in OpDiffs
    /\ acquired' = Append(acquired, "diff")
    /\ step' = step + 1
    /\ err' = 0
    /\ pc' = "select"
    /\ UNCHANGED <<pos, n, counted, heap, p, short_buffer, buffer, oob, dest,
                   op, filename, freed, result, raised, returned,
                   calls, fp, fs, stdout, args, treeish, giterr>>

\* the next library call fails: if (err) goto cleanup
LibraryFails ==
    /\ pc = "steps"
    /\ op \in DiffOps
    /\ err' = GIT_ERROR
    /\ giterr' = "library"
    /\ pc' = "cleanup"
    /\ UNCHANGED <<diff, pos, n, counted, heap, p, short_buffer, buffer, oob, dest,
                   op, filename, step, acquired, freed, result, raised,
                   returned, calls, fp, fs, stdout, args, treeish>>

\* if (Rf_isNull(filename)): the git_diff object is created and
\* git2r_diff_format_to_r is entered
SelectStructured ==
    /\ pc = "select"
    /\ OutputMode(filename) = "structured"
    /\ heap' = Append(heap, NewGitDiff(op))
    /\ result' = Len(heap) + 1
    /\ dest' = Len(heap) + 1
    /\ calls' = Append(calls, "git2r_diff_format_to_r")
    /\ p' = PayloadInit
    /\ n' = CountPayloadInit
    /\ counted' = NotCounted
    /\ pos' = 1
    /\ pc' = "count"
    /\ UNCHANGED <<diff, short_buffer, buffer, oob, err, op, filename, step, acquired,
                   freed, raised, returned, fp, fs, stdout, args, treeish,
                   giterr>>

\* else if (0 == Rf_length(filename)): git_diff_print into a git_buf, the
\* string is built when err is 0, git_buf_free
PrintToBuf ==
    /\ pc = "select"
    /\ OutputMode(filename) = "buffer"
    /\ calls' = Append(calls, "git_diff_print/to_buf")
    /\ acquired' = Append(acquired, "buf")
    /\ freed' = Append(freed, "buf")
    /\ \E e \in {0, GIT_ERROR} :
          /\ err' = e
          /\ giterr' = IF e = 0 THEN giterr ELSE "library"
          /\ IF e = 0
             THEN /\ heap' = Append(heap, Rf_mkString(PatchText(diff)))
                  /\ result' = Len(heap) + 1
             ELSE UNCHANGED <<heap, result>>
    /\ pc' = "cleanup"
    /\ UNCHANGED <<diff, pos, n, counted, p, short_buffer, buffer, oob, dest,
                   op, filename, step, raised, returned, fp, fs, stdout,
                   args, treeish>>

\* else: fp = fopen(filename, "w+"), git_diff_print with the file handle
\* callback and fp as payload, if (fp) fclose(fp)
PrintToFile ==
    /\ pc = "select"
    /\ OutputMode(filename) = "file"
    /\ calls' = Append(calls, "git_diff_print/to_file_handle")
    /\ \E opened \in BOOLEAN, e \in {0, GIT_ERROR}, k \in 0..Len(diff) :
          LET handle  == IF opened THEN "open" ELSE "null"
              written == IF e = 0 THEN PatchText(diff)
                         ELSE PatchText(SubSeq(diff, 1, k))
          IN  /\ e = 0 => k = Len(diff)
              /\ err' = e
              /\ giterr' = IF e = 0 THEN giterr ELSE "library"
              /\ fp' = IF opened THEN "closed" ELSE "null"
              /\ acquired' = IF opened THEN Append(acquired, "fp") ELSE acquired
              /\ freed' = IF opened THEN Append(freed, "fp") ELSE freed
              /\ fs' = IF SinkOf(handle) = "file" THEN written ELSE fs
              /\ stdout' = IF SinkOf(handle) = "stdout"
                           THEN stdout \o written ELSE stdout
    /\ pc' = "cleanup"
    /\ UNCHANGED <<diff, pos, n, counted, heap, p, short_buffer, buffer, oob, dest,
                   op, filename, step, result, raised, returned, args, treeish>>

\* variant: the frees after the cleanup label are not guarded
Releases_unguarded(o, acq, fr) == ReleaseOrder(o)

\* the handles freed after the cleanup label: each one held, in the order
\* of the operation's guarded frees
Releases(o, acq, fr) ==
    LET Held(h) == h \in Range(acq) /\ h \notin Range(fr)
    IN  SelectSeq(ReleaseOrder(o), Held)

\* cleanup: the frees, then git2r_error(giterr_last()) if err, else return
Cleanup ==
    /\ pc \in {"cleanup", "fmt_return"}
    /\ op \in DiffOps
    /\ freed' = freed \o Releases(op, acquired, freed)
    /\ IF err # 0
       THEN /\ raised' = giterr
            /\ returned' = returned
       ELSE /\ returned' = result
            /\ raised' = raised
    /\ pc' = "done"
    /\ UNCHANGED <<diff, pos, n, counted, heap, p, short_buffer, buffer, oob, dest, err,
                   op, filename, step, acquired, result, calls, fp, fs, stdout, args, treeish, giterr>>

\* err = git_revparse_single(&treeish, repository, ...) succeeds
RevparseResolves ==
    /\ pc = "revparse"
    /\ treeish' \in ObjectTypes
    /\ acquired' = Append(acquired, "treeish")
    /\ err' = 0
    /\ pc' = "switch"
    /\ UNCHANGED <<diff, pos, n, counted, heap, p, short_buffer, buffer, oob, dest,
                   op, filename, step, freed, result, raised, returned,
                   calls, fp, fs, stdout, args, giterr>>

\* git_revparse_single fails: if (err) goto cleanup
RevparseFails ==
    /\ pc = "revparse"
    /\ err' \in LibraryErrors
    /\ giterr' = "library"
    /\ pc' = "cleanup"
    /\ UNCHANGED <<diff, pos, n, counted, heap, p, short_buffer, buffer, oob, dest,
                   op, filename, step, acquired, freed, result, raised,
                   returned, calls, fp, fs, stdout, args, treeish>>

\* switch (git_object_type(treeish)): the result of the resolved kind is
\* built; default: giterr_set_str(git2r_err_revparse_single), err = GIT_ERROR
RevparseSwitch ==
    /\ pc = "switch"
    /\ IF ResultClass(treeish) # "none"
       THEN /\ heap' = Append(heap, [kind |-> ResultClass(treeish)])
            /\ result' = Len(heap) + 1
            /\ UNCHANGED <<err, giterr>>
       ELSE /\ giterr' = "git2r_err_revparse_single"
            /\ err' = GIT_ERROR
            /\ UNCHANGED <<heap, result>>
    /\ pc' = "cleanup"
    /\ UNCHANGED <<diff, pos, n, counted, p, short_buffer, buffer, oob, dest,
                   op, filename, step, acquired, freed, raised, returned,
                   calls, fp, fs, stdout, args, treeish>>

\* cleanup of git2r_revparse_single: the two guarded frees, then the
\* not-found error or git2r_error(giterr_last()) if err, else return
RevparseCleanup ==
    /\ pc = "cleanup"
    /\ op = "revparse_single"
    /\ freed' = freed \o Releases(op, acquired, freed)
    /\ IF err # 0
       THEN /\ raised' = RevparseError(err, giterr)
            /\ returned' = returned
       ELSE /\ returned' = result
            /\ raised' = raised
    /\ pc' = "done"
    /\ UNCHANGED <<diff, pos, n, counted, heap, p, short_buffer, buffer, oob, dest, err,
                   op, filename, step, acquired, result, calls, fp, fs, stdout,
                   args, treeish, giterr>>

\* a call of git2r_diff with any arguments, or of git2r_revparse_single
Init ==
    /\ \/ /\ op = "git2r_diff"
          /\ pc = "dispatch"
          /\ args \in DiffArgs
          /\ filename \in Filenames
       \/ /\ op = "revparse_single"
          /\ pc = "check_args"
          /\ args = NoArgs
          /\ filename = R_NilValue
    /\ treeish = "null"
    /\ giterr = "none"
    /\ step = 0
    /\ acquired = <<>>
    /\ freed = <<>>
    /\ result = 0
    /\ raised = "none"
    /\ returned = NotReturned
    /\ calls = <<>>
    /\ fp = "unopened"
    /\ fs = StaleContent
    /\ stdout = <<>>
    /\ diff = <<>>
    /\ pos = 1
    /\ n = CountPayloadInit
    /\ counted = NotCounted
    /\ heap = <<>>
    /\ dest = 0
    /\ p = PayloadInit
    /\ short_buffer = <<>>
    /\ buffer = NoBuffer
    /\ oob = FALSE
    /\ err = 0

Next ==
    \/ Dispatch
    \/ ArgumentError
    \/ RevparseResolves
    \/ RevparseFails
    \/ RevparseSwitch
    \/ RevparseCleanup
    \/ OpenRepository
    \/ AcquireHandle
    \/ CreateDiff
    \/ LibraryFails
    \/ SelectStructured
    \/ PrintToBuf
    \/ PrintToFile
    \/ CountFileCb
    \/ CountHunkCb
    \/ CountLineCb
    \/ CountFail
    \/ CountDone
    \/ GetFileCb
    \/ GetHunkCb
    \/ GetLineCb
    \/ GetFail
    \/ GetDone
    \/ Terminate
    \/ Cleanup

Spec == Init /\ [][Next]_vars

\* ------------------------------------------------- reading an event stream
FileIdx(d) == { i \in DOMAIN d : d[i].type = "file" }
HunkIdx(d) == { i \in DOMAIN d : d[i].type = "hunk" }
LineIdx(d) == { i \in DOMAIN d : d[i].type = "line" }

\* the greatest element of a set of naturals, 0 for the empty set
MaxOf(S) == IF S = {} THEN 0 ELSE CHOOSE x \in S : \A y \in S : y <= x

\* the k-th smallest element of S
Nth(S, k) == CHOOSE i \in S : Cardinality({ j \in S : j <= i }) = k

\* the file event an event at index i belongs to
FileOf(d, i) == MaxOf({ f \in FileIdx(d) : f <= i })

\* the file or hunk event that opened the boundary a line at index i is in
OwnerOf(d, i) == MaxOf({ j \in FileIdx(d) \cup HunkIdx(d) : j < i })

HunksIn(d, f) == { h \in HunkIdx(d) : FileOf(d, h) = f }
LinesIn(d, h) == { l \in LineIdx(d) : OwnerOf(d, l) = h }

\* every line event follows a hunk event of its file
WellFormed(d) == \A l \in LineIdx(d) : d[OwnerOf(d, l)].type = "hunk"

\* the fields a callback copies from its event, as the cell it creates
\* (child list and text content left out)
FieldsOfEvent(e) ==
    CASE e.type = "file" -> [kind |-> "git_diff_file",
                             old_file |-> e.old_path, new_file |-> e.new_path]
      [] e.type = "hunk" -> [kind |-> "git_diff_hunk",
                             old_start |-> e.old_start, old_lines |-> e.old_lines,
                             new_start |-> e.new_start, new_lines |-> e.new_lines,
                             header |-> e.header]
      [] e.type = "line" -> [kind |-> "git_diff_line", origin |-> e.origin,
                             old_lineno |-> e.old_lineno,
                             new_lineno |-> e.new_lineno,
                             num_lines |-> e.num_lines]

\* ------------------------------------------------------- reading the result
IsSet(r) == r # 0 /\ r \in DOMAIN heap

\* the elements of the list referenced by r; <<>> for an unset reference
Elts(r) == IF IsSet(r) /\ heap[r].kind = "VECSXP" THEN heap[r].elts ELSE <<>>

FieldsOfCell(c) ==
    CASE c.kind = "git_diff_file" -> [kind |-> c.kind, old_file |-> c.old_file,
                                      new_file |-> c.new_file]
      [] c.kind = "git_diff_hunk" -> [kind |-> c.kind,
                                      old_start |-> c.old_start,
                                      old_lines |-> c.old_lines,
                                      new_start |-> c.new_start,
                                      new_lines |-> c.new_lines,
                                      header |-> c.header]
      [] c.kind = "git_diff_line" -> [kind |-> c.kind, origin |-> c.origin,
                                      old_lineno |-> c.old_lineno,
                                      new_lineno |-> c.new_lineno,
                                      num_lines |-> c.num_lines]
      [] OTHER -> [kind |-> c.kind]

Fields(r) == IF IsSet(r) THEN FieldsOfCell(heap[r]) ELSE [kind |-> "NULL"]

\* the list in the hunks slot of file cell r, in the lines slot of hunk cell r
HunksSlot(r) == IF IsSet(r) /\ heap[r].kind = "git_diff_file" THEN heap[r].hunks ELSE 0
LinesSlot(r) == IF IsSet(r) /\ heap[r].kind = "git_diff_hunk" THEN heap[r].lines ELSE 0

\* the files list of dest
FilesSlot == heap[dest].files

\* git2r_diff_format_to_r returned 0
Succeeded == pc = "fmt_return" /\ err = 0

\* the materialized result as a value: files, their hunks, their lines
LinesView(h) == [i \in DOMAIN Elts(LinesSlot(h)) |-> Fields(Elts(LinesSlot(h))[i])]
HunksView(f) ==
    [j \in DOMAIN Elts(HunksSlot(f)) |->
        [hunk  |-> Fields(Elts(HunksSlot(f))[j]),
         lines |-> LinesView(Elts(HunksSlot(f))[j])]]
ResultView ==
    [k \in DOMAIN Elts(FilesSlot) |->
        [file  |-> Fields(Elts(FilesSlot)[k]),
         hunks |-> HunksView(Elts(FilesSlot)[k])]]

\* the same value read off the event stream
ExpectedLines(d, h) ==
    [i \in 1..Cardinality(LinesIn(d, h)) |-> FieldsOfEvent(d[Nth(LinesIn(d, h), i)])]
ExpectedHunks(d, f) ==
    [j \in 1..Cardinality(HunksIn(d, f)) |->
        [hunk  |-> FieldsOfEvent(d[Nth(HunksIn(d, f), j)]),
         lines |-> ExpectedLines(d, Nth(HunksIn(d, f), j))]]
Expected(d) ==
    [k \in 1..Cardinality(FileIdx(d)) |->
        [file  |-> FieldsOfEvent(d[Nth(FileIdx(d), k)]),
         hunks |-> ExpectedHunks(d, Nth(FileIdx(d), k))]]

\* ------------------------------------------------------------------ claims
\* C1: for a well-formed traversal git2r_diff_count returns 0 and reports
\* num_files = number of file events, max_hunks = the largest number of hunk
\* events of one file, max_lines = the largest number of line events of one
\* hunk (0 where there are none).
C1_CountIsExact ==
    /\ (pc = "get" /\ pos = 1) => (err = 0 /\ counted.set)
    /\ (counted.set /\ WellFormed(diff)) =>
          /\ counted.num_files = Cardinality(FileIdx(diff))
          /\ counted.max_hunks =
                MaxOf({ Cardinality(HunksIn(diff, f)) : f \in FileIdx(diff) })
          /\ counted.max_lines =
                MaxOf({ Cardinality(LinesIn(diff, h)) : h \in HunkIdx(diff) })

\* a counted well-formed diff whose last hunk is smaller than the largest
C1_Witness ==
    /\ counted.set /\ WellFormed(diff) /\ pc = "get" /\ pos = 1
    /\ counted.num_files = 1 /\ counted.max_hunks = 2 /\ counted.max_lines = 2
    /\ n.num_lines = 0

\* C2: after git2r_diff_format_to_r succeeds the files list has one entry
\* per file event, the i-th file's hunk list one entry per hunk event of that
\* file and each hunk's line list one entry per line event of that hunk;
\* nothing is padded to max_hunks or max_lines.
C2_ExactSizes ==
    Succeeded =>
      /\ IsSet(FilesSlot)
      /\ Len(Elts(FilesSlot)) = Cardinality(FileIdx(diff))
      /\ \A k \in DOMAIN Elts(FilesSlot) :
           LET fr == Elts(FilesSlot)[k]
               f  == Nth(FileIdx(diff), k)
           IN  /\ IsSet(fr)
               /\ IsSet(HunksSlot(fr))
               /\ Len(Elts(HunksSlot(fr))) = Cardinality(HunksIn(diff, f))
               /\ \A j \in DOMAIN Elts(HunksSlot(fr)) :
                    LET hr == Elts(HunksSlot(fr))[j]
                        h  == Nth(HunksIn(diff, f), j)
                    IN  /\ IsSet(hr)
                        /\ IsSet(LinesSlot(hr))
                        /\ Len(Elts(LinesSlot(hr))) = Cardinality(LinesIn(diff, h))

\* success on two files: the first file's second hunk has fewer lines than
\* max_lines and the second file has fewer hunks than max_hunks
C2_Witness ==
    /\ Succeeded
    /\ Len(ResultView) = 2
    /\ counted.max_hunks = 2 /\ counted.max_lines = 1
    /\ Len(ResultView[1].hunks) = 2
    /\ Len(ResultView[1].hunks[1].lines) = 1
    /\ Len(ResultView[1].hunks[2].lines) = 0
    /\ Len(ResultView[2].hunks) = 0

\* the references of the result in traversal order: each file, then each of
\* its hunks followed by that hunk's lines
PreOrder ==
    Concat([k \in DOMAIN Elts(FilesSlot) |->
        LET f == Elts(FilesSlot)[k]
        IN  <<f>> \o Concat([j \in DOMAIN Elts(HunksSlot(f)) |->
                LET h == Elts(HunksSlot(f))[j]
                IN  <<h>> \o Elts(LinesSlot(h))])])

\* cells are allocated in event order, so a later event has a greater reference
Increasing(s) == \A i \in 1..(Len(s) - 1) : s[i] < s[i + 1]

\* C3: in the materialized result files, the hunks of each file and the
\* lines of each hunk appear in the order of their events; nothing is
\* reordered, duplicated or attached to another parent.
C3_TraversalOrder ==
    Succeeded => /\ ResultView = Expected(diff)
                 /\ Increasing(PreOrder)

\* success on a hunk with two different lines followed by a second hunk
C3_Witness ==
    /\ Succeeded
    /\ Len(ResultView) = 1 /\ Len(ResultView[1].hunks) = 2
    /\ Len(ResultView[1].hunks[1].lines) = 2
    /\ ResultView[1].hunks[1].lines[1] # ResultView[1].hunks[1].lines[2]
    /\ ResultView[1].hunks[1].hunk # ResultView[1].hunks[2].hunk

\* the cells of kind file, hunk or line, by reference
IsEventCell(c) == c.kind \in {"git_diff_file", "git_diff_hunk", "git_diff_line"}
CellKinds(kinds) == { r \in DOMAIN heap : heap[r].kind \in kinds }

\* C4: in the materializing pass over the counted event stream every store
\* into a pre-allocated container is in bounds: file_ptr < num_files at a
\* file event, hunk_ptr < max_hunks at a hunk event, line_ptr < max_lines at
\* a line event; so no committed hunk has more than max_lines lines and no
\* committed file more than max_hunks hunks.
C4_StoresInBounds ==
    /\ ~oob
    /\ (pc = "get" /\ pos <= Len(diff)) =>
          /\ diff[pos].type = "file" =>
                p.file_ptr < counted.num_files
                /\ counted.num_files = Length(heap, p.result)
          /\ diff[pos].type = "hunk" =>
                p.hunk_ptr < counted.max_hunks
                /\ counted.max_hunks = Length(heap, p.hunk_tmp)
          /\ diff[pos].type = "line" =>
                p.line_ptr < counted.max_lines
                /\ counted.max_lines = Length(heap, p.line_tmp)
    /\ \A r \in CellKinds({"git_diff_hunk"}) :
          Len(Elts(LinesSlot(r))) <= counted.max_lines
    /\ \A r \in CellKinds({"git_diff_file"}) :
          Len(Elts(HunksSlot(r))) <= counted.max_hunks

\* the last slot of each container is about to be filled or has been filled
C4_Witness ==
    /\ pc = "get" /\ pos = Len(diff) /\ diff[pos].type = "line"
    /\ p.file_ptr = counted.num_files /\ counted.num_files = 2
    /\ p.hunk_ptr = counted.max_hunks
    /\ p.line_ptr = counted.max_lines - 1

\* the file whose hunks are staged, the hunk whose lines are staged
CurrentFile == VECTOR_ELT(heap, p.result, p.file_ptr - 1)
CurrentHunk == VECTOR_ELT(heap, p.hunk_tmp, p.hunk_ptr - 1)
Staged(v, len) == [i \in 1..len |-> VECTOR_ELT(heap, v, i - 1)]

\* C5: after a successful traversal the file callback is called once more
\* with a null delta; before that call the last file has no hunk list and
\* its last hunk no line list, after it both are committed.
C5_FinalFlush ==
    /\ pc = "flush" =>
          /\ p.file_ptr # 0 => HunksSlot(CurrentFile) = 0
          /\ p.hunk_ptr # 0 => LinesSlot(CurrentHunk) = 0
    /\ Succeeded =>
          /\ p.file_ptr # 0 =>
                /\ IsSet(HunksSlot(CurrentFile))
                /\ Elts(HunksSlot(CurrentFile)) = Staged(p.hunk_tmp, p.hunk_ptr)
          /\ p.hunk_ptr # 0 =>
                /\ IsSet(LinesSlot(CurrentHunk))
                /\ Elts(LinesSlot(CurrentHunk)) = Staged(p.line_tmp, p.line_ptr)

\* success on a diff whose last file ends in a hunk with staged lines
C5_Witness ==
    /\ Succeeded
    /\ p.file_ptr = 2 /\ p.hunk_ptr = 1 /\ p.line_ptr = 2

\* C6: a non-terminating file callback leaves hunk_ptr = 0 and line_ptr = 0,
\* a non-terminating hunk callback leaves line_ptr = 0; no hunk staged under
\* an earlier file is committed into a later file, no line staged under an
\* earlier hunk into a later hunk.
C6_StagingReset ==
    /\ (pc \in {"get", "undefined"} /\ pos > 1) =>
          /\ diff[pos - 1].type = "file" => (p.hunk_ptr = 0 /\ p.line_ptr = 0)
          /\ diff[pos - 1].type = "hunk" => p.line_ptr = 0
    /\ \A f \in CellKinds({"git_diff_file"}) :
          \A j \in DOMAIN Elts(HunksSlot(f)) :
             LET h == Elts(HunksSlot(f))[j]
             IN  /\ h > f
                 /\ \A g \in CellKinds({"git_diff_file"}) : ~(f < g /\ g < h)
    /\ \A h \in CellKinds({"git_diff_hunk"}) :
          \A i \in DOMAIN Elts(LinesSlot(h)) :
             LET l == Elts(LinesSlot(h))[i]
             IN  /\ l > h
                 /\ \A g \in CellKinds({"git_diff_file", "git_diff_hunk"}) :
                       ~(h < g /\ g < l)

\* a second file starts while a hunk and a line of the first are still in
\* the staging vectors
C6_Witness ==
    /\ pc = "get" /\ pos = 4 /\ diff[3].type = "file"
    /\ p.file_ptr = 2 /\ p.hunk_ptr = 0 /\ p.line_ptr = 0
    /\ VECTOR_ELT(heap, p.hunk_tmp, 0) # 0
    /\ Len(diff) = 5 /\ diff[4].type = "hunk" /\ diff[5].type = "hunk"

\* C8: a file with no hunk events is in the result at its traversal position
\* with a committed, empty hunk list, whether another file follows it or it
\* is the last file.
C8_FileWithoutHunks ==
    Succeeded =>
      \A k \in 1..Cardinality(FileIdx(diff)) :
         HunksIn(diff, Nth(FileIdx(diff), k)) = {} =>
            /\ k \in DOMAIN Elts(FilesSlot)
            /\ Fields(Elts(FilesSlot)[k]) = FieldsOfEvent(diff[Nth(FileIdx(diff), k)])
            /\ IsSet(HunksSlot(Elts(FilesSlot)[k]))
            /\ heap[HunksSlot(Elts(FilesSlot)[k])] = Rf_allocVector(0)

\* a file with a hunk, then a file without hunks, then a last file without
\* hunks
C8_Witness ==
    /\ Succeeded
    /\ Len(ResultView) = 3
    /\ Len(ResultView[1].hunks) = 1
    /\ Len(ResultView[2].hunks) = 0
    /\ Len(ResultView[3].hunks) = 0
    /\ ResultView[2].file # ResultView[1].file

\* the file, hunk and line cells in allocation order
EventCells == SelectSeq(heap, IsEventCell)

\* C9: every materialized element carries the fields of the event that
\* produced it; one file, one hunk and one line of origin '+' (43) give one
\* FileDelta holding one Hunk holding one Line of origin addition.
C9_FieldsOfEvents ==
    /\ (counted.set /\ pc # "undefined") =>
          [i \in DOMAIN EventCells |-> FieldsOfCell(EventCells[i])]
             = [i \in 1..(pos - 1) |-> FieldsOfEvent(diff[i])]
    /\ (Succeeded /\ Len(diff) = 3 /\ diff[2].type = "hunk"
          /\ diff[3].type = "line" /\ diff[3].origin = 43) =>
          /\ Len(ResultView) = 1
          /\ ResultView[1].file = FieldsOfEvent(diff[1])
          /\ Len(ResultView[1].hunks) = 1
          /\ ResultView[1].hunks[1].hunk = FieldsOfEvent(diff[2])
          /\ Len(ResultView[1].hunks[1].lines) = 1
          /\ ResultView[1].hunks[1].lines[1] = FieldsOfEvent(diff[3])
          /\ ResultView[1].hunks[1].lines[1].origin = 43

\* one renamed file with one hunk and one added line
C9_Witness ==
    /\ Succeeded
    /\ Len(diff) = 3 /\ diff[2].type = "hunk"
    /\ diff[3].type = "line" /\ diff[3].origin = 43
    /\ diff[1].old_path # diff[1].new_path

\* a diff operation returned a value (no error was raised)
Returned == pc = "done" /\ raised = "none" /\ op \in DiffOps

\* the three shapes of the filename argument
IsNilFilename == filename.isnull
IsEmptyFilename == ~filename.isnull /\ filename.strings = <<>>
IsPathFilename == ~filename.isnull /\ filename.strings # <<>>

\* C7: for a diff with zero files structured mode returns a git_diff whose
\* files list is empty (the terminating call commits nothing and creates no
\* file entry) and text-buffer mode returns the empty string.
C7_EmptyDiff ==
    (Returned /\ diff = <<>>) =>
      /\ IsNilFilename =>
            /\ returned = result /\ returned = dest
            /\ IsSet(returned) /\ heap[returned].kind = "git_diff"
            /\ IsSet(FilesSlot)
            /\ heap[FilesSlot] = Rf_allocVector(0)
            /\ CellKinds({"git_diff_file", "git_diff_hunk", "git_diff_line"}) = {}
            /\ CellKinds({"VECSXP"}) = {p.result, p.hunk_tmp, p.line_tmp}
      /\ IsEmptyFilename =>
            /\ IsSet(returned)
            /\ heap[returned] = [kind |-> "STRSXP", value |-> <<>>]

\* structured mode has returned for a diff without files
C7_Witness ==
    /\ Returned /\ diff = <<>> /\ IsNilFilename
    /\ counted.set /\ counted.num_files = 0
    /\ op = "head_to_index"

\* C10: the filename argument selects exactly one output mode: R_NilValue
\* builds the git_diff through git2r_diff_format_to_r and returns it, a
\* character vector of length 0 prints the patch into a buffer and returns
\* it as one string, anything else prints the patch through the file handle
\* callback to the file opened under that name and returns R_NilValue; the
\* patch printer and git2r_diff_format_to_r are never both called.
C10_ModeSelection ==
    /\ Len(calls) <= 1
    /\ pc \in {"check_args", "steps", "select"} => calls = <<>>
    /\ calls # <<>> =>
          /\ IsNilFilename => calls = <<"git2r_diff_format_to_r">>
          /\ IsEmptyFilename => calls = <<"git_diff_print/to_buf">>
          /\ IsPathFilename => calls = <<"git_diff_print/to_file_handle">>
    /\ Returned =>
          /\ calls # <<>>
          /\ IsNilFilename =>
                /\ returned = dest /\ IsSet(returned)
                /\ heap[returned].kind = "git_diff"
                /\ IsSet(FilesSlot)
                /\ fs = StaleContent /\ stdout = <<>>
          /\ IsEmptyFilename =>
                /\ IsSet(returned)
                /\ heap[returned] = Rf_mkString(PatchText(diff))
                /\ fs = StaleContent /\ stdout = <<>>
          /\ IsPathFilename =>
                /\ returned = 0
                /\ fp = "closed" => (fs = PatchText(diff) /\ stdout = <<>>)

\* file mode has returned after writing a patch of three events
C10_Witness ==
    /\ Returned /\ IsPathFilename /\ fp = "closed"
    /\ Len(diff) = 3 /\ fs = PatchText(diff)
    /\ op = "tree_to_tree"

\* ------------------------------------------------------------ git2r_diff
\* git2r_diff was the function called and has made its choice
Dispatched == op # "revparse_single" /\ pc # "dispatch"

\* a comparison of the library has been started or made
Compared == "repository" \in Range(acquired) \/ diff # <<>> \/ calls # <<>>

\* the comparison the arguments ask for, "error" for the two rejected shapes
Selected ==
    LET null1 == args.tree1 = R_NilValue
        null2 == args.tree2 = R_NilValue
        index == args.index.value
    IN  CASE null1 /\ ~null2                 -> "error"
          [] ~null1 /\ args.repo # R_NilValue -> "error"
          [] null1 /\ ~index                 -> "index_to_wd"
          [] null1 /\ index                  -> "head_to_index"
          [] ~null1 /\ null2 /\ ~index        -> "tree_to_wd"
          [] ~null1 /\ null2 /\ index         -> "tree_to_index"
          [] OTHER                           -> "tree_to_tree"

\* C11: git2r_diff runs index-to-workdir for tree1 NULL and index FALSE,
\* HEAD-to-index for tree1 NULL and index TRUE, tree-to-workdir for tree1
\* given, tree2 NULL and index FALSE, tree-to-index for tree1 given, tree2
\* NULL and index TRUE, tree-to-tree for both trees given whatever index
\* is; it raises the diff argument error, with no comparison made, when
\* tree1 is NULL and tree2 is not, or tree1 and repo are both given; every
\* call ends in exactly one of the five operations or in an error.
C11_Dispatch ==
    Dispatched =>
      IF ~args.index.logical
      THEN op = "git2r_diff" /\ pc = "done" /\ ~Compared
           /\ raised = "git2r_err_logical_arg"
      ELSE IF Selected = "error"
      THEN op = "git2r_diff" /\ pc = "done" /\ ~Compared
           /\ raised = "git2r_err_diff_arg"
      ELSE op = Selected /\ raised # "git2r_err_diff_arg"

\* both trees given and index TRUE: the tree-to-tree operation has returned
C11_Witness ==
    /\ Returned /\ op = "tree_to_tree" /\ "diff" \in Range(acquired)
    /\ args.tree1 # R_NilValue /\ args.tree2 # R_NilValue /\ args.index.value

\* ---------------------------------------------------------------- handles
NoDuplicates(seq) == \A i, j \in DOMAIN seq : seq[i] = seq[j] => i = j

\* the operation has returned or raised
Left == returned # NotReturned \/ raised # "none"

\* C12: in the five diff operations and in git2r_revparse_single, once the
\* repository is open, on every path (each library step succeeding or
\* failing) every handle acquired (diff, trees, parsed objects, repository,
\* text buffer, output file) is released exactly once, nothing that was not
\* acquired is released, and all releases precede the return or the error.
C12_HandlesReleased ==
    /\ NoDuplicates(acquired) /\ NoDuplicates(freed)
    /\ Range(freed) \subseteq Range(acquired)
    /\ Left => pc = "done"
    /\ (pc = "done" /\ "repository" \in Range(acquired)) =>
          /\ Left
          /\ Range(freed) = Range(acquired)
          /\ Len(freed) = Len(acquired)

\* tree-to-tree has raised after the lookup of the second tree failed: the
\* repository, both parsed objects and the first tree were held
C12_Witness ==
    /\ pc = "done" /\ op = "tree_to_tree" /\ raised = "library"
    /\ acquired = <<"repository", "obj1", "obj2", "c_tree1">>
    /\ freed = <<"c_tree1", "obj1", "obj2", "repository">>

\* ------------------------------------------------- failure of a traversal
\* git2r_diff_format_to_r was entered and the counting traversal failed
CountFailed ==
    /\ calls = <<"git2r_diff_format_to_r">>
    /\ ~counted.set
    /\ pc \in {"fmt_return", "done"}

\* C13: when the counting traversal fails, git2r_diff_count returns -1 and
\* writes none of its three outputs; git2r_diff_format_to_r returns that
\* error with no container allocated, the files slot of dest not assigned
\* and the materializing pass not started; the diff operation raises an
\* error and returns no git_diff object.
C13_CountFailure ==
    CountFailed =>
      /\ err = 0 - 1
      /\ counted = NotCounted
      /\ Len(heap) = dest /\ heap[dest] = NewGitDiff(op)
      /\ p = PayloadInit /\ short_buffer = <<>>
      /\ pc = "done" => (raised = "library" /\ returned = NotReturned)

\* tree-to-index has raised after the counting traversal failed on its
\* third event
C13_Witness ==
    /\ CountFailed /\ pc = "done" /\ op = "tree_to_index"
    /\ Len(diff) = 3 /\ pos = 3 /\ n.num_files > 0

\* ------------------------------------------------- git2r_revparse_single
\* git2r_revparse_single has left after git_revparse_single resolved
Resolved == op = "revparse_single" /\ pc = "done" /\ treeish # "null"

\* the result objects built
Built == { r \in DOMAIN heap : heap[r].kind \in
             {"git_blob", "git_commit", "git_tag", "git_tree"} }

Parsed ==
    op = "revparse_single" /\ pc = "done" /\ "repository" \in Range(acquired)

\* C15: git2r_revparse_single raises its not-found error exactly when the
\* library reported GIT_ENOTFOUND; every other failure of the resolution
\* raises the library's last error message; a revision resolved to a kind
\* without a result class raises the unsupported-kind error, never the
\* not-found error, and returns no object.
C15_RevparseErrors ==
    Parsed =>
      /\ raised = "git2r_err_revparse_not_found" <=>
            (treeish = "null" /\ err = GIT_ENOTFOUND)
      /\ (treeish = "null" /\ err # GIT_ENOTFOUND) =>
            (err # 0 /\ raised = "library")
      /\ (treeish # "null" /\ ResultClass(treeish) = "none") =>
            /\ raised = "git2r_err_revparse_single"
            /\ returned = NotReturned /\ Built = {}
      /\ raised # "none" => returned = NotReturned

\* a revision resolved to a kind without a result class: the unsupported
\* kind error has been raised
C15_Witness ==
    /\ Parsed /\ treeish = "GIT_OBJ_ANY"
    /\ raised = "git2r_err_revparse_single" /\ err = GIT_ERROR
    /\ freed = <<"treeish", "repository">>

\* ---------------------------------------------- structured result and text
\* the patch text of the materialized result: per file its two paths, per
\* hunk its header, per line its origin and its content
RenderedLines(h) ==
    Concat([i \in DOMAIN Elts(LinesSlot(h)) |->
              <<heap[Elts(LinesSlot(h))[i]].origin>>
                 \o heap[Elts(LinesSlot(h))[i]].content])
RenderedHunks(f) ==
    Concat([j \in DOMAIN Elts(HunksSlot(f)) |->
              Bytes(heap[Elts(HunksSlot(f))[j]].header) \o <<10>>
                 \o RenderedLines(Elts(HunksSlot(f))[j])])
Rendered ==
    Concat([k \in DOMAIN Elts(FilesSlot) |->
              Bytes(heap[Elts(FilesSlot)[k]].old_file) \o <<32>>
                 \o Bytes(heap[Elts(FilesSlot)[k]].new_file) \o <<10>>
                 \o RenderedHunks(Elts(FilesSlot)[k])])

\* the string text-buffer mode returns for the comparison
TextOf(d) == Rf_mkString(PatchText(d)).value

\* no line of the comparison holds a 0 byte
NoZeroByte(d) == \A l \in LineIdx(d) : \A i \in DOMAIN d[l].content :
                    d[l].content[i] # 0

\* C16: the structured result and the text rendering of one comparison
\* describe the same file paths, the same hunk ranges per file and the
\* same line contents per hunk: the text names exactly what the result
\* holds.
C16_RoundTrip ==
    (Succeeded /\ WellFormed(diff)) => Rendered = TextOf(diff)

\* the same for comparisons without a 0 byte in any line
C16_RoundTripOfText ==
    (Succeeded /\ WellFormed(diff) /\ NoZeroByte(diff)) =>
        Rendered = TextOf(diff)

\* ------------------------------------------------------- deferred commits
\* the next callback is a hunk callback, a file callback or the terminating
\* call; a file callback or the terminating call
HunkBoundary ==
    \/ pc = "get" /\ pos <= Len(diff) /\ diff[pos].type \in {"hunk", "file"}
    \/ pc = "flush"
FileBoundary ==
    \/ pc = "get" /\ pos <= Len(diff) /\ diff[pos].type = "file"
    \/ pc = "flush"

\* this step is a callback of the materializing pass
Called == (pc = "get" /\ pos' = pos + 1) \/ (pc = "flush" /\ pc' # "flush")

\* C17: commits are deferred and happen exactly once.  The line list of a
\* hunk is written only by the next hunk callback of its file, the next
\* file callback or the terminating call, and the hunk list of a file only
\* by the next file callback or the terminating call; until then the list
\* is unset, and once written neither the slot nor the list changes.
C17_DeferredCommit ==
    [][ /\ \A h \in CellKinds({"git_diff_hunk"}) :
             /\ LinesSlot(h) # 0 =>
                   /\ heap'[h] = heap[h]
                   /\ heap'[LinesSlot(h)] = heap[LinesSlot(h)]
             /\ (LinesSlot(h) = 0 /\ heap'[h].lines # 0) =>
                   /\ Called /\ HunkBoundary
                   /\ p.hunk_ptr # 0 /\ h = CurrentHunk
        /\ \A f \in CellKinds({"git_diff_file"}) :
             /\ HunksSlot(f) # 0 =>
                   /\ heap'[f] = heap[f]
                   /\ heap'[HunksSlot(f)] = heap[HunksSlot(f)]
             /\ (HunksSlot(f) = 0 /\ heap'[f].hunks # 0) =>
                   /\ Called /\ FileBoundary
                   /\ p.file_ptr # 0 /\ f = CurrentFile
        /\ \A r \in DOMAIN heap' \ DOMAIN heap :
             /\ heap'[r].kind = "git_diff_hunk" => heap'[r].lines = 0
             /\ heap'[r].kind = "git_diff_file" => heap'[r].hunks = 0
        /\ (Called /\ HunkBoundary /\ p.hunk_ptr # 0) =>
             /\ LinesSlot(CurrentHunk) = 0
             /\ heap'[CurrentHunk].lines # 0
        /\ (Called /\ FileBoundary /\ p.file_ptr # 0) =>
             /\ HunksSlot(CurrentFile) = 0
             /\ heap'[CurrentFile].hunks # 0
      ]_vars

\* the second hunk of a file is staged with one line, its list unset, while
\* the first hunk already holds its list
C17_Witness ==
    /\ pc = "get" /\ pos = 5 /\ p.file_ptr = 1 /\ p.hunk_ptr = 2 /\ p.line_ptr = 1
    /\ LinesSlot(CurrentHunk) = 0
    /\ IsSet(LinesSlot(VECTOR_ELT(heap, p.hunk_tmp, 0)))
    /\ HunksSlot(CurrentFile) = 0

\* the line objects created after hunk h and before the next hunk or file
LinesUnder(h) ==
    { l \in CellKinds({"git_diff_line"}) :
        /\ l > h
        /\ \A g \in CellKinds({"git_diff_file", "git_diff_hunk"}) :
              ~(h < g /\ g < l) }

\* C18: at a file boundary and at the terminating call the lines of the
\* last hunk are flushed before the hunk list of the file is committed:
\* every hunk of a committed hunk list, the last one included, holds its
\* complete line list.
C18_HunksHoldLines ==
    \A f \in CellKinds({"git_diff_file"}) :
       \A j \in DOMAIN Elts(HunksSlot(f)) :
          LET h == Elts(HunksSlot(f))[j]
          IN  /\ IsSet(LinesSlot(h))
              /\ Range(Elts(LinesSlot(h))) = LinesUnder(h)
              /\ Len(Elts(LinesSlot(h))) = Cardinality(LinesUnder(h))

\* a second file has started: the hunk list of the first is committed and
\* its last hunk holds its two lines
C18_Witness ==
    /\ pc = "get" /\ p.file_ptr = 2 /\ pos = 6
    /\ Len(Elts(HunksSlot(VECTOR_ELT(heap, p.result, 0)))) = 1
    /\ Len(Elts(LinesSlot(Elts(HunksSlot(VECTOR_ELT(heap, p.result, 0)))[1]))) = 2

\* ------------------------------------------------------ the two passes
\* the counting payload after the first k events
RECURSIVE CountedAfter(_, _)
CountedAfter(d, k) ==
    IF k = 0 THEN CountPayloadInit
    ELSE LET c == CountedAfter(d, k - 1)
         IN  CASE d[k].type = "file" -> git2r_diff_count_file_cb(c)
               [] d[k].type = "hunk" -> git2r_diff_count_hunk_cb(c)
               [] d[k].type = "line" -> git2r_diff_count_line_cb(c)

\* C19: over one event sequence the two passes stay in lockstep: after
\* every event file_ptr, hunk_ptr and line_ptr of the materializing pass
\* equal num_files, num_hunks and num_lines of the counting pass after the
\* same event; hence hunk_ptr <= max_hunks and line_ptr <= max_lines in
\* every reachable state.
C19_Lockstep ==
    /\ pc = "count" => n = CountedAfter(diff, pos - 1)
    /\ counted.set =>
          /\ p.file_ptr = CountedAfter(diff, pos - 1).num_files
          /\ p.hunk_ptr = CountedAfter(diff, pos - 1).num_hunks
          /\ p.line_ptr = CountedAfter(diff, pos - 1).num_lines
    /\ p.hunk_ptr <= counted.max_hunks
    /\ p.line_ptr <= counted.max_lines

\* the materializing pass stands in the first hunk of the second file
\* with one line staged, as the counting pass did after the same event
C19_Witness ==
    /\ pc = "get" /\ pos = 5 /\ counted.set
    /\ p.file_ptr = 2 /\ p.hunk_ptr = 1 /\ p.line_ptr = 1
    /\ CountedAfter(diff, 4).num_files = 2
    /\ counted.max_hunks = 1 /\ counted.max_lines = 1

\* the materializing traversal failed
GetFailed == counted.set /\ err # 0 /\ pc \in {"fmt_return", "done"}

\* C20: when the materializing traversal fails the terminating flush is not
\* made and git2r_diff_format_to_r returns the traversal's error code; the
\* diff operation raises an error and returns no git_diff object, so the
\* partly filled files list never reaches the caller.
C20_GetFailure ==
    GetFailed =>
      /\ err \in LibraryErrors
      /\ p.file_ptr # 0 => HunksSlot(CurrentFile) = 0
      /\ p.hunk_ptr # 0 => LinesSlot(CurrentHunk) = 0
      /\ returned = NotReturned
      /\ pc = "done" => raised = "library"

\* tree-to-workdir has raised after the traversal failed with one file and
\* one hunk staged
C20_Witness ==
    /\ GetFailed /\ pc = "done" /\ op = "tree_to_wd" /\ err = GIT_ENOTFOUND
    /\ p.file_ptr = 1 /\ p.hunk_ptr = 1 /\ p.line_ptr = 1
    /\ IsSet(FilesSlot) /\ raised = "library"

\* ------------------------------------------------------- the content copy
\* the line event the last line callback was given
LastLine == diff[MaxOf({ l \in LineIdx(diff) : l < pos })]

\* C21: copying the content of a line never writes past the capacity of
\* the buffer, whatever the content length: the static buffer of 200
\* bytes is used only when content_len + 1 fits into it, a heap buffer of
\* content_len + 1 bytes otherwise; the heap buffer is freed exactly when
\* it was allocated and the static buffer never.
C21_CopyInBounds ==
    /\ ~oob
    /\ Len(short_buffer) <= ShortBufferSize
    /\ buffer.kind # "none" =>
          /\ buffer.written = Len(LastLine.content) + 1
          /\ buffer.written <= buffer.capacity
          /\ buffer.kind = "static" =>
                /\ buffer.capacity = ShortBufferSize
                /\ Len(LastLine.content) + 1 <= ShortBufferSize
                /\ ~buffer.freed
          /\ Len(LastLine.content) + 1 > ShortBufferSize => buffer.kind = "heap"
          /\ buffer.kind = "heap" =>
                /\ buffer.capacity = Len(LastLine.content) + 1
                /\ buffer.freed

\* a line of exactly 200 content bytes, the shortest that does not fit
\* into short_buffer with its terminating byte, has been copied
C21_Witness ==
    /\ pc = "get" /\ pos = 4 /\ Len(diff[3].content) = ShortBufferSize
    /\ buffer.kind = "heap" /\ buffer.written = ShortBufferSize + 1

\* the line event the line object l was made from: the objects are created
\* in the order of the events
EventOfLine(l) ==
    diff[Nth(LineIdx(diff),
             Cardinality({ m \in CellKinds({"git_diff_line"}) : m <= l }))]

\* the first content_len bytes of a line event, cut at the first 0 byte
OwnContent(e) ==
    LET zeros == { i \in DOMAIN e.content : e.content[i] = 0 }
    IN  [i \in 1..(IF zeros = {} THEN Len(e.content)
                   ELSE MaxOf({ j \in DOMAIN e.content :
                                  \A z \in zeros : j < z })) |-> e.content[i]]

\* C22: the content of a materialized line depends on its own line event
\* only: it is the event's content bytes up to content_len, cut at the
\* first 0 byte, and holds no byte a longer line processed before left in
\* the static buffer.
C22_OwnContent ==
    \A l \in CellKinds({"git_diff_line"}) :
       heap[l].content = OwnContent(EventOfLine(l))

\* a line of 2 bytes has been copied into the static buffer after one of 8
\* bytes, whose last bytes are still there
C22_Witness ==
    /\ pc = "get" /\ pos = 5
    /\ Len(diff[3].content) = 8 /\ Len(diff[4].content) = 2
    /\ buffer.kind = "static" /\ Len(short_buffer) = 9
    /\ short_buffer[3] = 0 /\ short_buffer[4] = diff[3].content[4]

\* ------------------------------------------------------------------ frame
\* the objects and lists that are committed: a file whose hunk list is set
\* with that list, a hunk whose line list is set with that list, and the
\* hunks and lines in those lists
CommittedRefs ==
    LET files == { f \in CellKinds({"git_diff_file"}) : HunksSlot(f) # 0 }
        hunks == { h \in CellKinds({"git_diff_hunk"}) : LinesSlot(h) # 0 }
    IN  files \cup { HunksSlot(f) : f \in files }
              \cup UNION { Range(Elts(HunksSlot(f))) : f \in files }
              \cup hunks \cup { LinesSlot(h) : h \in hunks }
              \cup UNION { Range(Elts(LinesSlot(h))) : h \in hunks }

\* C23: once the line list of a hunk or the hunk list of a file is
\* committed no later event changes it: the staging slots are used again
\* for the next files and hunks, and every committed file, hunk, line and
\* list stays as it was, as does the place of every file in the result.
C23_CommittedFrame ==
    [][ /\ \A r \in CommittedRefs \ {0} : heap'[r] = heap[r]
        /\ \A i \in 1..p.file_ptr :
              VECTOR_ELT(heap', p.result, i - 1) = VECTOR_ELT(heap, p.result, i - 1)
      ]_vars

\* the first hunk of the second file has taken the staging slot of the
\* first file's committed hunk, which still holds its line
C23_Witness ==
    /\ pc = "get" /\ pos = 6 /\ p.file_ptr = 2 /\ p.hunk_ptr = 1
    /\ LET first == Elts(HunksSlot(VECTOR_ELT(heap, p.result, 0)))
       IN  /\ Len(first) = 1
           /\ first[1] # VECTOR_ELT(heap, p.hunk_tmp, 0)
           /\ Len(Elts(LinesSlot(first[1]))) = 1
           /\ Fields(first[1]) = FieldsOfEvent(diff[2])

\* ------------------------------------------------------------------- C24
\* a traversal that ended with no error of the diff engine
EndedByItself == pc = "fmt_return" /\ giterr = "none"

\* C24: every callback of both passes returns 0, so the binding never stops
\* a traversal itself: git2r_diff_format_to_r comes back with an error only
\* when the diff engine failed, and when the engine did not fail both
\* traversals have delivered every event of the diff (the counting pass has
\* produced its counts, the materializing pass stands behind the last event
\* and the terminating call has returned 0).
C24_NoAbort ==
    /\ (pc = "fmt_return" /\ err # 0) => giterr = "library"
    /\ pc = "flush" => (pos = Len(diff) + 1 /\ err = 0)
    /\ EndedByItself =>
          /\ err = 0
          /\ counted # NotCounted
          /\ pos = Len(diff) + 1

\* both traversals of a diff with a file, a hunk and a line have run to
\* their end and the terminating call has returned
C24_Witness ==
    /\ EndedByItself
    /\ pos = Len(diff) + 1
    /\ \E i, j, k \in 1..Len(diff) :
          /\ diff[i].type = "file"
          /\ diff[j].type = "hunk"
          /\ diff[k].type = "line"

\* ------------------------------------------------------------------- C25
\* the line events delivered inside a file before any hunk event of it
OrphanIdx(d) == { l \in LineIdx(d) : d[OwnerOf(d, l)].type = "file" }

\* the index of the event a line cell, a hunk cell was created for
LineIndexOf(r) ==
    Nth(LineIdx(diff), Cardinality({ m \in CellKinds({"git_diff_line"}) : m <= r }))
HunkIndexOf(r) ==
    Nth(HunkIdx(diff), Cardinality({ m \in CellKinds({"git_diff_hunk"}) : m <= r }))

\* the line cells created for such events
OrphanCells ==
    { r \in CellKinds({"git_diff_line"}) : LineIndexOf(r) \in OrphanIdx(diff) }

\* C25: a line event delivered inside a file before any hunk event of that
\* file is counted towards max_lines, is staged in bounds by the
\* materializing pass (hunk_ptr = 0, line_ptr below the length of line_tmp)
\* and is attached to no hunk of the result: every committed line list holds
\* lines of its own hunk only, so the line is dropped at the next hunk or
\* file boundary.
C25_OrphanLines ==
    /\ counted.set =>
          \A f \in FileIdx(diff) :
             Cardinality({ l \in OrphanIdx(diff) : OwnerOf(diff, l) = f })
                <= counted.max_lines
    /\ (pc = "get" /\ pos \in OrphanIdx(diff)) =>
          /\ p.hunk_ptr = 0
          /\ p.line_ptr < Length(heap, p.line_tmp)
    /\ OrphanIdx(diff) # {} => ~oob
    /\ \A h \in CellKinds({"git_diff_hunk"}) :
          \A i \in DOMAIN Elts(LinesSlot(h)) :
             /\ Elts(LinesSlot(h))[i] \notin OrphanCells
             /\ OwnerOf(diff, LineIndexOf(Elts(LinesSlot(h))[i])) = HunkIndexOf(h)

\* success on a file whose first event is a line, followed by a hunk with
\* one line: the result holds the hunk with its own line only
C25_Witness ==
    /\ Succeeded
    /\ Len(diff) = 4
    /\ 2 \in OrphanIdx(diff)
    /\ diff[3].type = "hunk" /\ diff[4].type = "line"
    /\ Cardinality(OrphanCells) = 1
    /\ Len(ResultView[1].hunks) = 1
    /\ Len(ResultView[1].hunks[1].lines) = 1

\* ------------------------------------------------------------------- C26
\* fopen returned NULL for the path named by filename
OpenFailed == fp = "null"

\* C26: in file mode the patch rendering is started only with an opened
\* handle: when the destination file cannot be opened git_diff_print is not
\* called with the file-handle callback, nothing is written to another
\* sink, and the operation ends with an error.
C26_FileModeNeedsHandle ==
    OpenFailed =>
       /\ \A i \in DOMAIN calls : calls[i] # "git_diff_print/to_file_handle"
       /\ stdout = <<>>
       /\ pc = "done" => raised # "none"

====
